---- MODULE Spec2Model ----
(***************************************************************************)
(* Real-time messaging and presence layer of the doctor-patient portal:    *)
(* the socket server of server/routes.ts (connection registry, presence    *)
(* broadcaster, chat_message handler), the REST chat routes of the same     *)
(* file and the store behind them (interface IStorage, class MemStorage;   *)
(* DbStorage makes the same calls in the same order against the database). *)
(*                                                                          *)
(* A handler is a sequence of steps.  A step runs from one store call the   *)
(* handler awaits to the next: with the database store every such call      *)
(* yields to the event loop, and the steps of handlers in flight            *)
(* interleave.  Consecutive calls that only read rows no handler changes    *)
(* (the users) are one step with the call that follows them.                *)
(*                                                                          *)
(* lastBroadcast, lastPush and lastResp hold what the latest step sent on   *)
(* the sockets and as a REST response; a step that sends nothing resets     *)
(* them.                                                                    *)
(*                                                                          *)
(* The client side is the pair of reconnecting socket effects (the Chat     *)
(* page and AuthContext.tsx): their sockets, attempt counter, timer handle  *)
(* and pending timers, with lastClient for what the latest client step did. *)
(* now is the server's wall clock as createMessage last read it.  outbox    *)
(* holds what the send actions of the Chat page have put on their way to    *)
(* the server.                                                              *)
(***************************************************************************)
EXTENDS Integers, Sequences, FiniteSets, TLC

\* ---------------------------------------------------------------- bounds
MaxConns == 2       \* sockets
MaxUsers == 3       \* stored users, the two seeded ones included
MaxMessages == 2    \* message rows ever created
MaxConvs == 3       \* conversation rows POST /connect may lead to
MaxTasks == 2       \* handlers in flight at once
MaxSends == 1       \* socket sends in the specifications that follow one send
MaxAttempts == 8    \* consecutive closes of a client's sockets without an open
MaxSockets == 2     \* sockets of one client effect that can still emit an event
MaxTime == 1        \* instants of the wall clock, from 0

Conns == 1..MaxConns
UserIds == 1..MaxUsers
Tasks == 1..MaxTasks
Status == {"sent", "delivered", "read"}
Contents == {"text", "edited"}

\* ----------------------------------------------------------------- state
VARIABLES
    readyState,     \* readyState[c]: state of socket c ("NONE" = not yet accepted)
    userId,         \* userId[c]: the closure variable of c's connection handler, 0 = undefined
    clients,        \* clients[u]: the socket registered for user u, 0 = no entry
    onlineUsers,    \* the online-set
    lastBroadcast,  \* what the latest step broadcast (NoBroadcast: it ran no broadcast)
    lastPush,       \* the (socket, chat_message event) pairs the latest step sent;
                    \* an event names the message, the branch that sent it and
                    \* its status field ("none" when it carries none)
    users,          \* users[i]: the stored role of user i (MemStorage.users)
    messages,       \* MemStorage.messages: message id -> row
    currentMessageId,
    conversations,  \* MemStorage.conversations: conversation id -> row
    currentConversationId,
    tasks,          \* tasks[t]: a handler in flight, with its locals and position
    lastResp,       \* the REST response the latest step sent (NoResp: none)
    now,            \* the server's wall clock as new Date() last gave it
    effect,         \* effect[k]: socket effect of client component k: "none", "active", "cleaned"
    sockets,        \* sockets[k]: readyState of the WebSockets the effect created that
                    \* have not emitted close, oldest first; the last one is the
                    \* closure variable socket and stays there once CLOSED
    reconnectAttempts,  \* reconnectAttempts[k]
    reconnectTimeout,   \* reconnectTimeout[k]: "null", or the handle of a timer that
                        \* is "pending" or "dead" (fired or cleared)
    timers,         \* timers[k]: reconnect timers of the effect that are pending
    delays,         \* delays[k]: the delays its close listener computed since the last open
    lastClient,     \* what the latest client step did: socket created, register sent
    outbox          \* the Chat page's user send actions so far (sends), the socket of
                    \* each chat_message event on its way to the server (ws), oldest
                    \* first, and the POST /api/messages requests on their way (rest)

registryVars == <<readyState, userId, clients, onlineUsers>>
storeVars == <<users, messages, currentMessageId, conversations, currentConversationId>>

vars == <<readyState, userId, clients, onlineUsers, lastBroadcast, lastPush,
          users, messages, currentMessageId, conversations,
          currentConversationId, tasks, lastResp, now, effect, sockets,
          reconnectAttempts, reconnectTimeout, timers, delays, lastClient, outbox>>

effectVars == <<effect, sockets, reconnectAttempts, reconnectTimeout, timers,
                delays, lastClient>>
clientVars == <<effectVars, outbox>>
serverVars == <<registryVars, storeVars, lastBroadcast, lastPush, tasks, lastResp, now>>

otherVars == <<users, messages, currentMessageId, conversations,
               currentConversationId, tasks>>

NoBroadcast == [sent |-> FALSE, payload |-> {}, to |-> {}, evicted |-> {}]
NoResp == [kind |-> "none", code |-> 0]

\* A step that sends nothing of the kind.
NoBroadcastSent == lastBroadcast' = NoBroadcast
NoPush == lastPush' = {}
NoResponse == lastResp' = NoResp

\* ------------------------------------------------- presence broadcaster
\* Keys of the registry.
RegistryKeys(cl) == {u \in UserIds : cl[u] # 0}

\* The entries the sweep finds with a socket that is not OPEN.
StaleKeys(cl, rs) == {u \in RegistryKeys(cl) : rs[cl[u]] # "OPEN"}

\* Array.from(onlineUsers), taken on entry, before the sweep.
onlineUsersList(cl, on, rs) == on

\* broadcastOnlineStatus() with a sweep that forgets the online-set.
broadcastSweepingRegistryOnly(cl, on, rs) ==
    LET stale == StaleKeys(cl, rs)
        cl2 == [u \in UserIds |-> IF u \in stale THEN 0 ELSE cl[u]]
    IN  [clients |-> cl2,
         onlineUsers |-> on,
         out |-> [sent |-> TRUE,
                  payload |-> onlineUsersList(cl, on, rs),
                  to |-> {<<u, cl2[u]>> : u \in RegistryKeys(cl2)},
                  evicted |-> stale]]

\* broadcastOnlineStatus(): the registry and online-set it leaves, the payload
\* it sends, and the (user id, socket) entries it sends it to.
broadcastOnlineStatus(cl, on, rs) ==
    LET stale == StaleKeys(cl, rs)
        cl2 == [u \in UserIds |-> IF u \in stale THEN 0 ELSE cl[u]]
    IN  [clients |-> cl2,
         onlineUsers |-> on \ stale,
         out |-> [sent |-> TRUE,
                  payload |-> onlineUsersList(cl, on, rs),
                  to |-> {<<u, cl2[u]>> : u \in RegistryKeys(cl2)},
                  evicted |-> stale]]

\* The same with a catch block that forgets the online-set.
broadcastKeepingOnline(cl, on, rs, thrown) ==
    LET b == broadcastOnlineStatus(cl, on, rs)
        failed == thrown \cap RegistryKeys(b.clients)
    IN  [clients |-> [u \in UserIds |-> IF u \in failed THEN 0 ELSE b.clients[u]],
         onlineUsers |-> b.onlineUsers,
         out |-> [sent |-> TRUE, payload |-> b.out.payload,
                  to |-> {e \in b.out.to : e[1] \notin failed},
                  evicted |-> b.out.evicted \cup failed,
                  failed |-> failed]]

\* broadcastOnlineStatus() when ws.send throws for the entries of the users
\* `thrown` that the sweep left: the catch block evicts each of them, and the
\* loop goes on with the next entry.
broadcastOnlineStatusThrowing(cl, on, rs, thrown) ==
    LET b == broadcastOnlineStatus(cl, on, rs)
        failed == thrown \cap RegistryKeys(b.clients)
    IN  [clients |-> [u \in UserIds |-> IF u \in failed THEN 0 ELSE b.clients[u]],
         onlineUsers |-> b.onlineUsers \ failed,
         out |-> [sent |-> TRUE, payload |-> b.out.payload,
                  to |-> {e \in b.out.to : e[1] \notin failed},
                  evicted |-> b.out.evicted \cup failed,
                  failed |-> failed]]

\* A set that keeps an entry the user already has.
RegistrySetIfAbsent(cl, u, c) == IF cl[u] = 0 THEN [cl EXCEPT ![u] = c] ELSE cl

\* clients.set(u, c)
RegistrySet(cl, u, c) == [cl EXCEPT ![u] = c]

\* clients.delete(u)
RegistryDelete(cl, u) == [cl EXCEPT ![u] = 0]

\* ------------------------------------------------------ socket lifecycle
\* wss.on("connection"): a new socket is accepted, its userId is undefined.
Connect(c) ==
    /\ readyState[c] = "NONE"
    /\ readyState' = [readyState EXCEPT ![c] = "OPEN"]
    /\ userId' = [userId EXCEPT ![c] = 0]
    /\ UNCHANGED <<clients, onlineUsers, otherVars>>
    /\ NoBroadcastSent /\ NoPush /\ NoResponse
    /\ UNCHANGED <<now, clientVars>>

\* A register event on socket c carrying userId u (0 = missing or zero); the
\* sends of its broadcast to the users `thrown` throw.
RegisterThrowing(c, u, thrown) ==
    /\ readyState[c] = "OPEN"
    /\ userId' = [userId EXCEPT ![c] = u]
    /\ IF u # 0
       THEN LET b == broadcastOnlineStatusThrowing(RegistrySet(clients, u, c),
                                           onlineUsers \cup {u}, readyState, thrown)
            IN  /\ clients' = b.clients
                /\ onlineUsers' = b.onlineUsers
                /\ lastBroadcast' = b.out
       ELSE UNCHANGED <<clients, onlineUsers>> /\ NoBroadcastSent
    /\ UNCHANGED <<readyState, otherVars>>
    /\ NoPush /\ NoResponse
    /\ UNCHANGED <<now, clientVars>>

\* A register event on socket c carrying userId u, no send throwing.
Register(c, u) == RegisterThrowing(c, u, {})

\* The peer's close frame (or a transport failure) arrives: the socket is
\* CLOSING until its close event is emitted.
BeginClose(c) ==
    /\ readyState[c] = "OPEN"
    /\ readyState' = [readyState EXCEPT ![c] = "CLOSING"]
    /\ UNCHANGED <<userId, clients, onlineUsers, otherVars>>
    /\ NoBroadcastSent /\ NoPush /\ NoResponse
    /\ UNCHANGED <<now, clientVars>>

\* The close event of socket c: both close listeners, in registration order;
\* the sends of its broadcast to the users `thrown` throw.
CloseThrowing(c, thrown) ==
    /\ readyState[c] = "CLOSING"
    /\ readyState' = [readyState EXCEPT ![c] = "CLOSED"]
    /\ IF userId[c] # 0
       THEN LET b == broadcastOnlineStatusThrowing(RegistryDelete(clients, userId[c]),
                                           onlineUsers \ {userId[c]}, readyState', thrown)
            IN  /\ clients' = RegistryDelete(b.clients, userId[c])
                /\ onlineUsers' = b.onlineUsers
                /\ lastBroadcast' = b.out
       ELSE UNCHANGED <<clients, onlineUsers>> /\ NoBroadcastSent
    /\ UNCHANGED <<userId, otherVars>>
    /\ NoPush /\ NoResponse
    /\ UNCHANGED <<now, clientVars>>

\* The close event of socket c, no send throwing.
Close(c) == CloseThrowing(c, {})


\* ------------------------------------------------------------ the store
Min2(a, b) == IF a < b THEN a ELSE b
Max2(a, b) == IF a < b THEN b ELSE a
MinOf(S) == CHOOSE x \in S : \A y \in S : x <= y

\* MemStorage.getUser: the stored role, "none" for undefined.
getUser(id) == IF id \in DOMAIN users THEN users[id] ELSE "none"

\* MemStorage.getDoctors, in insertion order: doctors[0] is the lowest id.
getDoctors == {i \in DOMAIN users : users[i] = "doctor"}

\* MemStorage.getConversationByUsers: the first row whose doctorId and
\* patientId are the two arguments, in this order; 0 for undefined.
getConversationByUsers(convs, doctorId, patientId) ==
    LET found == {i \in DOMAIN convs : /\ convs[i].doctorId = doctorId
                                       /\ convs[i].patientId = patientId}
    IN  IF found = {} THEN 0 ELSE MinOf(found)

\* The arguments createMessage and the chat_message handler pass to
\* getConversationByUsers: the smaller id as doctorId, the larger as patientId.
LookupByMinMax(convs, a, b) == getConversationByUsers(convs, Min2(a, b), Max2(a, b))

\* doctorId / patientId chosen from the stored roles of the two users.
RolePair(a, b) ==
    [doctorId |-> IF getUser(a) = "doctor" THEN a ELSE b,
     patientId |-> IF getUser(a) = "patient" THEN a ELSE b]

\* MemStorage.createConversation
createConversation(convs, id, row) == (id :> row) @@ convs

\* MemStorage.getMessagesBetweenUsers: the ids of the rows exchanged by a and b.
getMessagesBetweenUsers(msgs, a, b) ==
    {i \in DOMAIN msgs :
        \/ msgs[i].fromUserId = a /\ msgs[i].toUserId = b
        \/ msgs[i].fromUserId = b /\ msgs[i].toUserId = a}

\* MemStorage.updateMessageStatus: nothing when the row is gone.
updateMessageStatus(msgs, id, status) ==
    IF id \in DOMAIN msgs THEN [msgs EXCEPT ![id].status = status] ELSE msgs

\* MemStorage.updateMessage
updateMessage(msgs, id, content) ==
    IF id \in DOMAIN msgs THEN [msgs EXCEPT ![id].content = content] ELSE msgs

\* MemStorage.deleteMessage
deleteMessage(msgs, id) == [i \in DOMAIN msgs \ {id} |-> msgs[i]]

\* The ids in ascending order, the order of insertion.
RECURSIVE SortedSeq(_)
SortedSeq(S) == IF S = {} THEN <<>> ELSE <<MinOf(S)>> \o SortedSeq(S \ {MinOf(S)})

\* The rows S in the order of their insertion, whatever their sentAt.
byInsertion(msgs, S) == SortedSeq(S)

\* .sort((a, b) => a.sentAt.getTime() - b.sentAt.getTime()) on the rows S
\* taken in insertion order: ascending sentAt, equal ones in insertion order.
RECURSIVE bySentAt(_, _)
bySentAt(msgs, S) ==
    IF S = {} THEN <<>>
    ELSE LET first == CHOOSE i \in S : \A j \in S :
                          \/ msgs[i].sentAt < msgs[j].sentAt
                          \/ msgs[i].sentAt = msgs[j].sentAt /\ i <= j
         IN  <<first>> \o bySentAt(msgs, S \ {first})

\* ------------------------------------------------------------- handlers
Idle == [kind |-> "idle", pc |-> "idle"]

AllIdle == \A t \in Tasks : tasks[t] = Idle
\* A new handler takes the lowest free slot.
FreeSlot(t) == tasks[t] = Idle /\ \A s \in Tasks : s < t => tasks[s] # Idle

\* POST /api/register -> MemStorage.createUser
CreateUser(role) ==
    /\ Len(users) < MaxUsers
    /\ users' = Append(users, role)
    /\ UNCHANGED <<registryVars, messages, currentMessageId, conversations,
                   currentConversationId, tasks>>
    /\ NoBroadcastSent /\ NoPush /\ NoResponse
    /\ UNCHANGED <<now, clientVars>>

\* A guard that leaves the recipient as the event names it.
actualToUserIdAsSent(from, to) == to

\* The self-send guard of the chat_message handler: the recipient it persists.
actualToUserId(from, to) ==
    IF from = to /\ getUser(from) = "patient" /\ getDoctors # {}
    THEN MinOf(getDoctors) ELSE to

\* Whether the handler returns before persisting anything.
ChatDropped(from, to) ==
    \/ getUser(from) = "none"
    \/ getUser(to) = "none"
    \/ from = to /\ getUser(from) = "doctor"

\* chat_message on socket c, dropped: a user is missing, or a doctor writes to itself.
ChatDrop(c, from, to) ==
    /\ readyState[c] = "OPEN"
    /\ ChatDropped(from, to)
    /\ UNCHANGED <<registryVars, storeVars, tasks>>
    /\ NoBroadcastSent /\ NoPush /\ NoResponse
    /\ UNCHANGED <<now, clientVars>>

\* The status createMessage stores: message.status || "sent".
InitialStatus(st) == IF st = "none" THEN "sent" ELSE st

\* chat_message on socket c, up to the first suspension inside createMessage:
\* the row is inserted and the conversation of the pair is looked up. What
\* the server does; the client side is left to the caller.
ChatInsert(t, c, from, to) ==
    /\ readyState[c] = "OPEN"
    /\ FreeSlot(t)
    /\ currentMessageId <= MaxMessages
    /\ ~ChatDropped(from, to)
    /\ LET ato == actualToUserId(from, to)
       IN  /\ messages' = (currentMessageId :>
                             [fromUserId |-> from, toUserId |-> ato,
                              content |-> "text", status |-> InitialStatus("sent"),
                              sentAt |-> now])
                          @@ messages
           /\ tasks' = [tasks EXCEPT ![t] =
                 [kind |-> "chat", pc |-> "cm2", conn |-> c,
                  dataFrom |-> from, dataTo |-> to, from |-> from, to |-> ato,
                  msg |-> currentMessageId,
                  conv |-> LookupByMinMax(conversations, from, ato)]]
    /\ currentMessageId' = currentMessageId + 1
    /\ UNCHANGED <<registryVars, users, conversations, currentConversationId>>
    /\ NoBroadcastSent /\ NoPush /\ NoResponse
    /\ UNCHANGED now

\* The same for an event whose sending is not modelled.
ChatStart(t, c, from, to) == ChatInsert(t, c, from, to) /\ UNCHANGED clientVars

\* The message event of a chat_message on socket c: the handler starts and
\* suspends at its first store call, getUser(data.fromUserId).
ChatReceive(t, c, from, to) ==
    /\ readyState[c] = "OPEN"
    /\ FreeSlot(t)
    /\ tasks' = [tasks EXCEPT ![t] =
          [kind |-> "chat", pc |-> "recv", conn |-> c,
           dataFrom |-> from, dataTo |-> to, from |-> from, to |-> to,
           msg |-> 0, conv |-> 0]]
    /\ UNCHANGED <<registryVars, storeVars>>
    /\ NoBroadcastSent /\ NoPush /\ NoResponse
    /\ UNCHANGED <<now, clientVars>>

\* The handler of slot t once its users are read: it returns when one is
\* missing or a doctor writes to itself; otherwise the self-send guard, then
\* createMessage up to its first suspension, as in ChatStart.
ChatUsers(t) ==
    /\ tasks[t].kind = "chat" /\ tasks[t].pc = "recv"
    /\ LET from == tasks[t].dataFrom
           to == tasks[t].dataTo
           ato == actualToUserId(from, to)
       IN  IF ChatDropped(from, to)
           THEN /\ tasks' = [tasks EXCEPT ![t] = Idle]
                /\ UNCHANGED <<messages, currentMessageId>>
           ELSE /\ currentMessageId <= MaxMessages
                /\ messages' = (currentMessageId :>
                                  [fromUserId |-> from, toUserId |-> ato,
                                   content |-> "text",
                                   status |-> InitialStatus("sent"),
                                   sentAt |-> now])
                               @@ messages
                /\ tasks' = [tasks EXCEPT ![t] =
                      [tasks[t] EXCEPT !.pc = "cm2", !.to = ato,
                                       !.msg = currentMessageId,
                                       !.conv = LookupByMinMax(conversations, from, ato)]]
                /\ currentMessageId' = currentMessageId + 1
    /\ UNCHANGED <<registryVars, users, conversations, currentConversationId>>
    /\ NoBroadcastSent /\ NoPush /\ NoResponse
    /\ UNCHANGED <<now, clientVars>>

\* The rest of createMessage: touch the conversation found, or create one
\* when the lookup found none and both users exist.
createMessageTail(convs, conv, from, to) ==
    IF conv = 0 /\ getUser(from) # "none" /\ getUser(to) # "none"
    THEN createConversation(convs, currentConversationId, RolePair(from, to))
    ELSE convs

ChatPersistConv(t) ==
    /\ tasks[t].kind = "chat" /\ tasks[t].pc = "cm2"
    /\ conversations' = createMessageTail(conversations, tasks[t].conv,
                                          tasks[t].from, tasks[t].to)
    /\ currentConversationId' =
          IF conversations' = conversations THEN currentConversationId
          ELSE currentConversationId + 1
    /\ tasks' = [tasks EXCEPT ![t].pc = "h3"]
    /\ UNCHANGED <<registryVars, users, messages, currentMessageId>>
    /\ NoBroadcastSent /\ NoPush /\ NoResponse
    /\ UNCHANGED <<now, clientVars>>

\* Back in the handler: the implicit registration of a socket that has no
\* userId yet, then the handler's own conversation lookup.
ChatRegister(t) ==
    /\ tasks[t].kind = "chat" /\ tasks[t].pc = "h3"
    /\ LET c == tasks[t].conn
           fromId == tasks[t].dataFrom
       IN  IF userId[c] = 0 /\ fromId # 0
           THEN LET b == broadcastOnlineStatus(RegistrySet(clients, fromId, c),
                                               onlineUsers \cup {fromId}, readyState)
                IN  /\ userId' = [userId EXCEPT ![c] = fromId]
                    /\ clients' = b.clients
                    /\ onlineUsers' = b.onlineUsers
                    /\ lastBroadcast' = b.out
           ELSE UNCHANGED <<userId, clients, onlineUsers>> /\ NoBroadcastSent
    /\ tasks' = [tasks EXCEPT ![t].pc = "h4",
                              ![t].conv = LookupByMinMax(conversations,
                                                         tasks[t].from, tasks[t].to)]
    /\ UNCHANGED <<readyState, storeVars>>
    /\ NoPush /\ NoResponse
    /\ UNCHANGED <<now, clientVars>>

\* The handler touches the conversation it found or creates one, with the
\* roles of data.fromUserId and data.toUserId.
ChatConv(t) ==
    /\ tasks[t].kind = "chat" /\ tasks[t].pc = "h4"
    /\ IF tasks[t].conv = 0
       THEN /\ conversations' = createConversation(conversations, currentConversationId,
                                    RolePair(tasks[t].dataFrom, tasks[t].dataTo))
            /\ currentConversationId' = currentConversationId + 1
       ELSE UNCHANGED <<conversations, currentConversationId>>
    /\ tasks' = [tasks EXCEPT ![t].pc = "h5"]
    /\ UNCHANGED <<registryVars, users, messages, currentMessageId>>
    /\ NoBroadcastSent /\ NoPush /\ NoResponse
    /\ UNCHANGED <<now, clientVars>>

\* updateMessageStatus(newMessage.id, "delivered"), whoever is connected.
ChatDelivered(t) ==
    /\ tasks[t].kind = "chat" /\ tasks[t].pc = "h5"
    /\ messages' = updateMessageStatus(messages, tasks[t].msg, "delivered")
    /\ tasks' = [tasks EXCEPT ![t].pc = "h6"]
    /\ UNCHANGED <<registryVars, users, currentMessageId, conversations,
                   currentConversationId>>
    /\ NoBroadcastSent /\ NoPush /\ NoResponse
    /\ UNCHANGED <<now, clientVars>>

\* A faulty push: the recipient's registered socket gets the message
\* whatever its readyState.
RecipientPushAnyState(cl, rs, to, msg) ==
    IF cl[to] # 0
    THEN {<<cl[to], [msg |-> msg, via |-> "recipient", status |-> "none"]>>}
    ELSE {}

\* The fan-out, as (socket, event) pairs: the recipient's registered socket
\* gets the message when that socket is OPEN.
RecipientPush(cl, rs, to, msg) ==
    IF cl[to] # 0 /\ rs[cl[to]] = "OPEN"
    THEN {<<cl[to], [msg |-> msg, via |-> "recipient", status |-> "none"]>>}
    ELSE {}

\* The sender's registered socket gets a confirmation when it is OPEN and is
\* not the originating socket.
SenderConfirm(cl, rs, c, from, msg) ==
    IF cl[from] # 0 /\ rs[cl[from]] = "OPEN" /\ cl[from] # c
    THEN {<<cl[from], [msg |-> msg, via |-> "sender", status |-> "delivered"]>>}
    ELSE {}

\* A faulty confirmation: it is skipped when the originating socket is a
\* registered one.
OriginConfirmUnregisteredOnly(rs, c, msg) ==
    IF rs[c] = "OPEN" /\ \A u \in UserIds : clients[u] # c
    THEN {<<c, [msg |-> msg, via |-> "origin", status |-> "delivered"]>>}
    ELSE {}

\* The originating socket gets a confirmation when it is OPEN.
OriginConfirm(rs, c, msg) ==
    IF rs[c] = "OPEN"
    THEN {<<c, [msg |-> msg, via |-> "origin", status |-> "delivered"]>>}
    ELSE {}

FanOut(cl, rs, c, from, to, msg) ==
    RecipientPush(cl, rs, to, msg) \cup SenderConfirm(cl, rs, c, from, msg)
        \cup OriginConfirm(rs, c, msg)

ChatFanOut(t) ==
    /\ tasks[t].kind = "chat" /\ tasks[t].pc = "h6"
    /\ lastPush' = FanOut(clients, readyState, tasks[t].conn,
                          tasks[t].from, tasks[t].to, tasks[t].msg)
    /\ tasks' = [tasks EXCEPT ![t] = Idle]
    /\ UNCHANGED <<registryVars, storeVars>>
    /\ NoBroadcastSent /\ NoResponse
    /\ UNCHANGED <<now, clientVars>>

\* The store call the handler of slot t awaits rejects (a failure of the
\* database): the rejection reaches the catch of the message listener, which
\* logs it, and the handler ends; what it persisted before stays.
ChatFail(t) ==
    /\ tasks[t].kind = "chat" /\ tasks[t].pc \in {"recv", "cm2", "h4", "h5"}
    /\ tasks' = [tasks EXCEPT ![t] = Idle]
    /\ UNCHANGED <<registryVars, storeVars>>
    /\ NoBroadcastSent /\ NoPush /\ NoResponse
    /\ UNCHANGED <<now, clientVars>>

\* ------------------------------------------------------------ REST routes
\* A request body of POST /api/messages: the fields the schema keeps that
\* matter here; fromUserId 0 and status "none" stand for a field left out.
Body(from, to, st) == [fromUserId |-> from, toUserId |-> to, status |-> st]

\* { fromUserId: userId, ...req.body }: a body that wins over the session.
messageDataBodyWins(body, u) ==
    IF body.fromUserId = 0 THEN [body EXCEPT !.fromUserId = u] ELSE body

\* insertMessageSchema.parse({ ...req.body, fromUserId: userId })
messageData(body, u) == [body EXCEPT !.fromUserId = u]

\* POST /api/messages by session user u with a request body: createMessage
\* up to its first suspension. The wall clock, which has moved forward as time
\* passed or back as the system time was adjusted, reads `time`. What the
\* server does; the client side is left to the caller.
PostInsertAt(t, u, body, time) ==
    /\ u \in DOMAIN users
    /\ FreeSlot(t)
    /\ currentMessageId <= MaxMessages
    /\ now' = time
    /\ LET data == messageData(body, u)
           newMessage == [fromUserId |-> data.fromUserId, toUserId |-> data.toUserId,
                          content |-> "text", status |-> InitialStatus(data.status),
                          sentAt |-> now']
       IN  /\ messages' = (currentMessageId :> newMessage) @@ messages
           /\ tasks' = [tasks EXCEPT ![t] =
                 [kind |-> "post", pc |-> "cm2", caller |-> u, body |-> body,
                  from |-> data.fromUserId, to |-> data.toUserId,
                  msg |-> currentMessageId, row |-> newMessage,
                  conv |-> LookupByMinMax(conversations, data.fromUserId,
                                          data.toUserId)]]
    /\ currentMessageId' = currentMessageId + 1
    /\ UNCHANGED <<registryVars, users, conversations, currentConversationId>>
    /\ NoBroadcastSent /\ NoPush /\ NoResponse

\* The same for a request whose sending is not modelled.
PostStartAt(t, u, body, time) == PostInsertAt(t, u, body, time) /\ UNCHANGED clientVars

\* The same while the wall clock stands still.
PostStart(t, u, body) == PostStartAt(t, u, body, now)

\* The rest of createMessage, then 201 with the created row.
PostPersistConv(t) ==
    /\ tasks[t].kind = "post" /\ tasks[t].pc = "cm2"
    /\ conversations' = createMessageTail(conversations, tasks[t].conv,
                                          tasks[t].from, tasks[t].to)
    /\ currentConversationId' =
          IF conversations' = conversations THEN currentConversationId
          ELSE currentConversationId + 1
    /\ lastResp' = [kind |-> "post", code |-> 201, caller |-> tasks[t].caller,
                    id |-> tasks[t].msg, body |-> tasks[t].row]
    /\ tasks' = [tasks EXCEPT ![t] = Idle]
    /\ UNCHANGED <<registryVars, users, messages, currentMessageId>>
    /\ NoBroadcastSent /\ NoPush
    /\ UNCHANGED <<now, clientVars>>

\* POST /api/connect: the answer given before any write, 0 when the handler
\* goes on to create the conversation.
ConnectEarlyCode(u, target) ==
    LET doctorId == IF getUser(u) = "doctor" THEN u ELSE target
        patientId == IF getUser(u) = "doctor" THEN target ELSE u
    IN  IF target = 0 THEN 400
        ELSE IF getUser(target) = "none" THEN 404
        ELSE IF getUser(u) = "doctor" /\ getUser(target) # "patient" THEN 400
        ELSE IF getUser(u) # "doctor" /\ getUser(target) # "doctor" THEN 400
        ELSE IF getConversationByUsers(conversations, doctorId, patientId) # 0 THEN 400
        ELSE 0

\* POST /api/connect by session user u for target: up to the existence check.
ConnectStart(t, u, target) ==
    /\ u \in DOMAIN users
    /\ FreeSlot(t)
    /\ currentConversationId <= MaxConvs
    /\ LET code == ConnectEarlyCode(u, target)
           doctorId == IF getUser(u) = "doctor" THEN u ELSE target
           patientId == IF getUser(u) = "doctor" THEN target ELSE u
       IN  IF code # 0
           THEN /\ lastResp' = [kind |-> "connect", code |-> code, caller |-> u,
                                id |-> target]
                /\ UNCHANGED tasks
           ELSE /\ tasks' = [tasks EXCEPT ![t] =
                       [kind |-> "connect", pc |-> "create", caller |-> u,
                        target |-> target,
                        doctorId |-> doctorId, patientId |-> patientId]]
                /\ NoResponse
    /\ UNCHANGED <<registryVars, storeVars>>
    /\ NoBroadcastSent /\ NoPush
    /\ UNCHANGED <<now, clientVars>>

\* createConversation({doctorId, patientId}), then 201 with the new row.
ConnectCreate(t) ==
    /\ tasks[t].kind = "connect" /\ tasks[t].pc = "create"
    /\ conversations' = createConversation(conversations, currentConversationId,
              [doctorId |-> tasks[t].doctorId, patientId |-> tasks[t].patientId])
    /\ currentConversationId' = currentConversationId + 1
    /\ lastResp' = [kind |-> "connect", code |-> 201, caller |-> tasks[t].caller,
                    id |-> tasks[t].target, conv |-> currentConversationId]
    /\ tasks' = [tasks EXCEPT ![t] = Idle]
    /\ UNCHANGED <<registryVars, users, messages, currentMessageId>>
    /\ NoBroadcastSent /\ NoPush
    /\ UNCHANGED <<now, clientVars>>

\* A faulty check: it lets every doctor in, not only the conversation's own.
IsParticipantAnyDoctor(conv, u) == getUser(u) = "doctor" \/ conv.patientId = u

\* The participant check of the conversation routes.
IsParticipant(conv, u) == conv.doctorId = u \/ conv.patientId = u

\* The answer of the conversation routes before they touch the messages:
\* 404 for a missing row, 403 for a caller who is not a participant, else 0.
ConversationAccess(convs, id, u) ==
    IF id \notin DOMAIN convs THEN 404
    ELSE IF ~IsParticipant(convs[id], u) THEN 403
    ELSE 0

\* GET /api/conversations/:id/messages by session user u: the access check.
GetStart(t, u, id) ==
    /\ u \in DOMAIN users
    /\ FreeSlot(t)
    /\ LET code == ConversationAccess(conversations, id, u)
       IN  IF code # 0
           THEN /\ lastResp' = [kind |-> "get", code |-> code, caller |-> u, id |-> id]
                /\ UNCHANGED tasks
           ELSE /\ tasks' = [tasks EXCEPT ![t] =
                       [kind |-> "get", pc |-> "fetch", caller |-> u, id |-> id,
                        body |-> <<>>, order |-> <<>>, todo |-> <<>>]]
                /\ NoResponse
    /\ UNCHANGED <<registryVars, storeVars>>
    /\ NoBroadcastSent /\ NoPush
    /\ UNCHANGED <<now, clientVars>>

\* MemStorage.getMessagesByConversation: the rows between the two participants,
\* none when the conversation is gone.
getMessagesByConversation(convs, msgs, id) ==
    IF id \notin DOMAIN convs THEN {}
    ELSE getMessagesBetweenUsers(msgs, convs[id].doctorId, convs[id].patientId)

\* A faulty filter: it skips the rows that are already delivered.
messagesToUpdateSentOnly(msgs, fetched, u) ==
    {i \in fetched : msgs[i].toUserId = u /\ msgs[i].status = "sent"}

\* messagesToUpdate: the fetched rows addressed to the caller and not yet read.
messagesToUpdate(msgs, fetched, u) ==
    {i \in fetched : msgs[i].toUserId = u /\ msgs[i].status # "read"}

\* The rows are fetched, sorted by sentAt; the response, which carries the
\* rows as fetched (body) in that order (order), is sent at once when none is
\* to be marked.
GetFetch(t) ==
    /\ tasks[t].kind = "get" /\ tasks[t].pc = "fetch"
    /\ LET fetched == getMessagesByConversation(conversations, messages, tasks[t].id)
           order == bySentAt(messages, fetched)
           toMark == messagesToUpdate(messages, fetched, tasks[t].caller)
           todo == SelectSeq(order, LAMBDA i : i \in toMark)
           body == [i \in fetched |-> messages[i]]
       IN  IF todo = <<>>
           THEN /\ lastResp' = [kind |-> "get", code |-> 200, caller |-> tasks[t].caller,
                                id |-> tasks[t].id, body |-> body, order |-> order]
                /\ tasks' = [tasks EXCEPT ![t] = Idle]
           ELSE /\ tasks' = [tasks EXCEPT ![t].pc = "mark", ![t].body = body,
                                          ![t].order = order, ![t].todo = todo]
                /\ NoResponse
    /\ UNCHANGED <<registryVars, storeVars>>
    /\ NoBroadcastSent /\ NoPush
    /\ UNCHANGED <<now, clientVars>>

\* One updateMessageStatus(message.id, "read") of the loop; the response
\* follows the last one.
GetMark(t) ==
    /\ tasks[t].kind = "get" /\ tasks[t].pc = "mark"
    /\ messages' = updateMessageStatus(messages, Head(tasks[t].todo), "read")
    /\ IF Len(tasks[t].todo) = 1
       THEN /\ lastResp' = [kind |-> "get", code |-> 200, caller |-> tasks[t].caller,
                            id |-> tasks[t].id, body |-> tasks[t].body,
                            order |-> tasks[t].order]
            /\ tasks' = [tasks EXCEPT ![t] = Idle]
       ELSE /\ tasks' = [tasks EXCEPT ![t].todo = Tail(tasks[t].todo)]
            /\ NoResponse
    /\ UNCHANGED <<registryVars, users, currentMessageId, conversations,
                   currentConversationId>>
    /\ NoBroadcastSent /\ NoPush
    /\ UNCHANGED <<now, clientVars>>

\* DELETE /api/conversations/:id by session user u: the access check.
DeleteConvStart(t, u, id) ==
    /\ u \in DOMAIN users
    /\ FreeSlot(t)
    /\ LET code == ConversationAccess(conversations, id, u)
       IN  IF code # 0
           THEN /\ lastResp' = [kind |-> "delconv", code |-> code, caller |-> u,
                                id |-> id]
                /\ UNCHANGED tasks
           ELSE /\ tasks' = [tasks EXCEPT ![t] =
                       [kind |-> "delconv", pc |-> "delete", caller |-> u, id |-> id]]
                /\ NoResponse
    /\ UNCHANGED <<registryVars, storeVars>>
    /\ NoBroadcastSent /\ NoPush
    /\ UNCHANGED <<now, clientVars>>

\* The messages deleteConversation removes with a row: only those the doctor sent.
messagesToDeleteFromDoctor(msgs, conversation) ==
    {i \in DOMAIN msgs : /\ msgs[i].fromUserId = conversation.doctorId
                         /\ msgs[i].toUserId = conversation.patientId}

\* The messages deleteConversation removes with a row: those between its
\* doctor and its patient, in either direction.
messagesToDelete(msgs, conversation) ==
    {i \in DOMAIN msgs :
        \/ /\ msgs[i].fromUserId = conversation.doctorId
           /\ msgs[i].toUserId = conversation.patientId
        \/ /\ msgs[i].fromUserId = conversation.patientId
           /\ msgs[i].toUserId = conversation.doctorId}

\* MemStorage.deleteConversation(id, userId): the messages of the pair, then
\* the row; 500 when the row is gone or the caller is no participant.
DeleteConvDo(t) ==
    /\ tasks[t].kind = "delconv" /\ tasks[t].pc = "delete"
    /\ LET id == tasks[t].id
           ok == ConversationAccess(conversations, id, tasks[t].caller) = 0
       IN  /\ IF ok
              THEN LET gone == messagesToDelete(messages, conversations[id])
                   IN  /\ messages' = [i \in DOMAIN messages \ gone |-> messages[i]]
                       /\ conversations' = [i \in DOMAIN conversations \ {id} |->
                                               conversations[i]]
              ELSE UNCHANGED <<messages, conversations>>
           /\ lastResp' = [kind |-> "delconv", code |-> IF ok THEN 200 ELSE 500,
                           caller |-> tasks[t].caller, id |-> id]
    /\ tasks' = [tasks EXCEPT ![t] = Idle]
    /\ UNCHANGED <<registryVars, users, currentMessageId, currentConversationId>>
    /\ NoBroadcastSent /\ NoPush
    /\ UNCHANGED <<now, clientVars>>

\* The store call of the route rejects (the database store has no
\* deleteConversation): the catch answers 500 and nothing is deleted.
DeleteConvFail(t) ==
    /\ tasks[t].kind = "delconv" /\ tasks[t].pc = "delete"
    /\ lastResp' = [kind |-> "delconv", code |-> 500, caller |-> tasks[t].caller,
                    id |-> tasks[t].id]
    /\ tasks' = [tasks EXCEPT ![t] = Idle]
    /\ UNCHANGED <<registryVars, storeVars>>
    /\ NoBroadcastSent /\ NoPush
    /\ UNCHANGED <<now, clientVars>>

\* The ownership check of the message routes: 404 for a missing row, 403
\* for a caller who is not its stored sender, else 0.
MessageAccess(msgs, id, u) ==
    IF id \notin DOMAIN msgs THEN 404
    ELSE IF msgs[id].fromUserId # u THEN 403
    ELSE 0

\* PATCH /api/messages/:id by session user u: the ownership check.
PatchStart(t, u, id, content) ==
    /\ u \in DOMAIN users
    /\ FreeSlot(t)
    /\ LET code == MessageAccess(messages, id, u)
       IN  IF code # 0
           THEN /\ lastResp' = [kind |-> "patch", code |-> code, caller |-> u, id |-> id]
                /\ UNCHANGED tasks
           ELSE /\ tasks' = [tasks EXCEPT ![t] =
                       [kind |-> "patch", pc |-> "update", caller |-> u, id |-> id,
                        content |-> content]]
                /\ NoResponse
    /\ UNCHANGED <<registryVars, storeVars>>
    /\ NoBroadcastSent /\ NoPush
    /\ UNCHANGED <<now, clientVars>>

\* updateMessage(messageId, content): 500 when the row is gone.
PatchDo(t) ==
    /\ tasks[t].kind = "patch" /\ tasks[t].pc = "update"
    /\ messages' = updateMessage(messages, tasks[t].id, tasks[t].content)
    /\ lastResp' = [kind |-> "patch",
                    code |-> IF tasks[t].id \in DOMAIN messages THEN 200 ELSE 500,
                    caller |-> tasks[t].caller, id |-> tasks[t].id]
    /\ tasks' = [tasks EXCEPT ![t] = Idle]
    /\ UNCHANGED <<registryVars, users, currentMessageId, conversations,
                   currentConversationId>>
    /\ NoBroadcastSent /\ NoPush
    /\ UNCHANGED <<now, clientVars>>

\* DELETE /api/messages/:id by session user u: the ownership check.
DeleteMsgStart(t, u, id) ==
    /\ u \in DOMAIN users
    /\ FreeSlot(t)
    /\ LET code == MessageAccess(messages, id, u)
       IN  IF code # 0
           THEN /\ lastResp' = [kind |-> "delmsg", code |-> code, caller |-> u,
                                id |-> id]
                /\ UNCHANGED tasks
           ELSE /\ tasks' = [tasks EXCEPT ![t] =
                       [kind |-> "delmsg", pc |-> "delete", caller |-> u, id |-> id]]
                /\ NoResponse
    /\ UNCHANGED <<registryVars, storeVars>>
    /\ NoBroadcastSent /\ NoPush
    /\ UNCHANGED <<now, clientVars>>

\* deleteMessage(messageId): 500 when the row is gone.
DeleteMsgDo(t) ==
    /\ tasks[t].kind = "delmsg" /\ tasks[t].pc = "delete"
    /\ messages' = deleteMessage(messages, tasks[t].id)
    /\ lastResp' = [kind |-> "delmsg",
                    code |-> IF tasks[t].id \in DOMAIN messages THEN 200 ELSE 500,
                    caller |-> tasks[t].caller, id |-> tasks[t].id]
    /\ tasks' = [tasks EXCEPT ![t] = Idle]
    /\ UNCHANGED <<registryVars, users, currentMessageId, conversations,
                   currentConversationId>>
    /\ NoBroadcastSent /\ NoPush
    /\ UNCHANGED <<now, clientVars>>

\* --------------------------------------------- client reconnection managers
\* The two socket effects of the client: the Chat page's and AuthContext's.
\* Each run of an effect has its own socket, reconnectAttempts and
\* reconnectTimeout; the user it reads is the one its closure captured, which
\* is never null (the effect returns at once when it is).
Kinds == {"chat", "auth"}

\* Math.min(base * Math.pow(factor, reconnectAttempts), max): the factor is
\* num / den (1.5 in Chat, 2 in AuthContext), milliseconds.
Backoff == [chat |-> [base |-> 1000, num |-> 3, den |-> 2, max |-> 15000],
            auth |-> [base |-> 1000, num |-> 2, den |-> 1, max |-> 30000]]

RECURSIVE Pow(_, _)
Pow(b, n) == IF n = 0 THEN 1 ELSE b * Pow(b, n - 1)

\* A delay is a fraction of milliseconds, [num, den]; x < y.
Less(x, y) == x.num * y.den < y.num * x.den

\* The ceiling of component k.
ceiling(k) == [num |-> Backoff[k].max, den |-> 1]

\* The backoff without its ceiling.
delayUncapped(k, n) ==
    [num |-> Backoff[k].base * Pow(Backoff[k].num, n), den |-> Pow(Backoff[k].den, n)]

\* A backoff whose ceiling is left out.
delayCeilingIgnored(k, n) == delayUncapped(k, n)

\* The delay the close listener computes at reconnectAttempts = n.
delay(k, n) ==
    IF Less(ceiling(k), delayUncapped(k, n)) THEN ceiling(k) ELSE delayUncapped(k, n)

NoClient == [kind |-> "none", opened |-> FALSE, register |-> FALSE]

\* readyState of the closure variable socket.
socket(ss) == IF ss = <<>> THEN "null" ELSE ss[Len(ss)]

\* socket.close() on a socket in state rs.
WebSocketClose(rs) == IF rs \in {"CONNECTING", "OPEN"} THEN "CLOSING" ELSE rs

\* The sockets other than the current one that can still emit an event.
Earlier(ss) == SelectSeq(ss, LAMBDA rs : rs # "CLOSED")

\* clearTimeout(reconnectTimeout): the pending timers it leaves.
clearTimeout(rt, tm) == IF rt = "pending" THEN tm - 1 ELSE tm

\* connectWebSocket(): clears the reconnect timer; Chat keeps a socket that is
\* OPEN and closes any other before it creates the new one.
connectWebSocket(k, ss, rt, tm) ==
    IF k = "chat" /\ socket(ss) = "OPEN"
    THEN [sockets |-> ss, reconnectTimeout |-> "null",
          timers |-> clearTimeout(rt, tm), opened |-> FALSE]
    ELSE LET closed == IF k = "chat" /\ ss # <<>>
                       THEN [ss EXCEPT ![Len(ss)] = WebSocketClose(ss[Len(ss)])]
                       ELSE ss
         IN  [sockets |-> Append(Earlier(closed), "CONNECTING"),
              reconnectTimeout |-> "null",
              timers |-> clearTimeout(rt, tm), opened |-> TRUE]

\* The effect runs (mount, or a dependency changed while the user is logged in).
Mount(k) ==
    /\ effect[k] = "none"
    /\ LET r == connectWebSocket(k, sockets[k], reconnectTimeout[k], timers[k])
       IN  /\ sockets' = [sockets EXCEPT ![k] = r.sockets]
           /\ reconnectTimeout' = [reconnectTimeout EXCEPT ![k] = r.reconnectTimeout]
           /\ timers' = [timers EXCEPT ![k] = r.timers]
           /\ lastClient' = [kind |-> k, opened |-> r.opened, register |-> FALSE]
    /\ effect' = [effect EXCEPT ![k] = "active"]
    /\ UNCHANGED <<reconnectAttempts, delays, serverVars, outbox>>

\* The open event of socket i of k: the attempts are reset, and register is
\* sent on the current socket when that one is OPEN.
SocketOpen(k, i) ==
    /\ i \in DOMAIN sockets[k]
    /\ sockets[k][i] = "CONNECTING"
    /\ sockets' = [sockets EXCEPT ![k][i] = "OPEN"]
    /\ reconnectAttempts' = [reconnectAttempts EXCEPT ![k] = 0]
    /\ delays' = [delays EXCEPT ![k] = <<>>]
    /\ lastClient' = [kind |-> k, opened |-> FALSE,
                      register |-> socket(sockets'[k]) = "OPEN"]
    /\ UNCHANGED <<effect, reconnectTimeout, timers, serverVars, outbox>>

\* The connection of socket i of k fails and its error event is emitted: the
\* listener only logs. The socket is no longer connecting or open ("ERROR");
\* its close event follows.
SocketError(k, i) ==
    /\ i \in DOMAIN sockets[k]
    /\ sockets[k][i] \in {"CONNECTING", "OPEN"}
    /\ sockets' = [sockets EXCEPT ![k][i] = "ERROR"]
    /\ lastClient' = NoClient
    /\ UNCHANGED <<effect, reconnectAttempts, reconnectTimeout, timers, delays, serverVars, outbox>>

\* The close listener as if it ran at the error event, the socket still
\* connecting or open.
SocketClosedWhileLive(k, i) ==
    /\ i \in DOMAIN sockets[k]
    /\ sockets[k][i] # "CLOSED"
    /\ reconnectAttempts[k] < MaxAttempts
    /\ UNCHANGED sockets
    /\ delays' = [delays EXCEPT ![k] = Append(@, delay(k, reconnectAttempts[k]))]
    /\ reconnectAttempts' = [reconnectAttempts EXCEPT ![k] = @ + 1]
    /\ IF k = "chat" /\ reconnectTimeout[k] # "null"
       THEN UNCHANGED <<reconnectTimeout, timers>>
       ELSE /\ reconnectTimeout' = [reconnectTimeout EXCEPT ![k] = "pending"]
            /\ timers' = [timers EXCEPT ![k] = @ + 1]
    /\ lastClient' = NoClient
    /\ UNCHANGED <<effect, serverVars, outbox>>

\* The close event of socket i of k (closed by the server, by a failure of the
\* connection, or at the end of a close() of the client): the delay is
\* computed, the attempts are counted, and a reconnect is scheduled; Chat
\* schedules none while reconnectTimeout is set.
SocketClosed(k, i) ==
    /\ i \in DOMAIN sockets[k]
    /\ sockets[k][i] # "CLOSED"
    /\ reconnectAttempts[k] < MaxAttempts
    /\ sockets' = [sockets EXCEPT ![k] =
          IF i = Len(sockets[k]) THEN [sockets[k] EXCEPT ![i] = "CLOSED"]
          ELSE Earlier([sockets[k] EXCEPT ![i] = "CLOSED"])
               \o (IF socket(sockets[k]) = "CLOSED" THEN <<"CLOSED">> ELSE <<>>)]
    /\ delays' = [delays EXCEPT ![k] = Append(@, delay(k, reconnectAttempts[k]))]
    /\ reconnectAttempts' = [reconnectAttempts EXCEPT ![k] = @ + 1]
    /\ IF k = "chat" /\ reconnectTimeout[k] # "null"
       THEN UNCHANGED <<reconnectTimeout, timers>>
       ELSE /\ reconnectTimeout' = [reconnectTimeout EXCEPT ![k] = "pending"]
            /\ timers' = [timers EXCEPT ![k] = @ + 1]
    /\ lastClient' = NoClient
    /\ UNCHANGED <<effect, serverVars, outbox>>

\* A reconnect timer of k fires, the one reconnectTimeout refers to (own) or
\* one scheduled before it: Chat sets reconnectTimeout to null; the user of
\* the closure is set, so connectWebSocket() runs.
TimerFire(k, own) ==
    /\ timers[k] > 0
    /\ IF own THEN reconnectTimeout[k] = "pending"
       ELSE timers[k] > (IF reconnectTimeout[k] = "pending" THEN 1 ELSE 0)
    /\ Len(sockets[k]) < MaxSockets
    /\ LET rt == IF k = "chat" THEN "null"
                 ELSE IF own THEN "dead" ELSE reconnectTimeout[k]
           r == connectWebSocket(k, sockets[k], rt, timers[k] - 1)
       IN  /\ sockets' = [sockets EXCEPT ![k] = r.sockets]
           /\ reconnectTimeout' = [reconnectTimeout EXCEPT ![k] = r.reconnectTimeout]
           /\ timers' = [timers EXCEPT ![k] = r.timers]
           /\ lastClient' = [kind |-> k, opened |-> r.opened, register |-> FALSE]
    /\ UNCHANGED <<effect, reconnectAttempts, delays, serverVars, outbox>>

\* The cleanup of the effect (unmount, conversation change, logout): close()
\* on the current socket and clearTimeout on reconnectTimeout, which keeps
\* its value.
Cleanup(k) ==
    /\ effect[k] = "active"
    /\ effect' = [effect EXCEPT ![k] = "cleaned"]
    /\ sockets' = [sockets EXCEPT ![k] =
          IF sockets[k] = <<>> THEN <<>>
          ELSE [sockets[k] EXCEPT ![Len(sockets[k])] = WebSocketClose(socket(sockets[k]))]]
    /\ timers' = [timers EXCEPT ![k] = clearTimeout(reconnectTimeout[k], @)]
    /\ reconnectTimeout' = [reconnectTimeout EXCEPT ![k] =
          IF @ = "pending" THEN "dead" ELSE @]
    /\ lastClient' = NoClient
    /\ UNCHANGED <<reconnectAttempts, delays, serverVars, outbox>>

\* ------------------------------------------------------- specifications
Init ==
    /\ readyState = [c \in Conns |-> "NONE"]
    /\ userId = [c \in Conns |-> 0]
    /\ clients = [u \in UserIds |-> 0]
    /\ onlineUsers = {}
    /\ lastBroadcast = NoBroadcast
    /\ lastPush = {}
    /\ users = <<"doctor", "patient">>
    /\ messages = <<>>
    /\ currentMessageId = 1
    /\ conversations = <<>>
    /\ currentConversationId = 1
    /\ tasks = [t \in Tasks |-> Idle]
    /\ lastResp = NoResp
    /\ now = 0
    /\ effect = [k \in Kinds |-> "none"]
    /\ sockets = [k \in Kinds |-> <<>>]
    /\ reconnectAttempts = [k \in Kinds |-> 0]
    /\ reconnectTimeout = [k \in Kinds |-> "null"]
    /\ timers = [k \in Kinds |-> 0]
    /\ delays = [k \in Kinds |-> <<>>]
    /\ lastClient = NoClient
    /\ outbox = [sends |-> 0, ws |-> <<>>, rest |-> 0]

\* The users the constructor seeds: a doctor, then a patient.
SeedDoctor == 1
SeedPatient == 2
SeededUsers == {SeedDoctor, SeedPatient}

ConvIds == 1..currentConversationId
MsgIds == 1..currentMessageId

\* The connection registry and the presence broadcaster alone.
NextRegistry ==
    \/ \E c \in Conns : Connect(c)
    \/ \E c \in Conns, u \in 0..MaxUsers : Register(c, u)
    \/ \E c \in Conns : BeginClose(c)
    \/ \E c \in Conns : Close(c)

SpecRegistry == Init /\ [][NextRegistry]_vars

\* POST /messages, with any sender and any status in the body, and GET
\* messages, one request at a time: a handler starts only when none is in
\* flight.
NextGet ==
    \/ \E t \in Tasks, u \in DOMAIN users, from \in 0..MaxUsers, to \in DOMAIN users,
          st \in Status \cup {"none"} :
          AllIdle /\ PostStart(t, u, Body(from, to, st))
    \/ \E t \in Tasks : PostPersistConv(t)
    \/ \E t \in Tasks, u \in DOMAIN users, id \in ConvIds : AllIdle /\ GetStart(t, u, id)
    \/ \E t \in Tasks : GetFetch(t)
    \/ \E t \in Tasks : GetMark(t)

SpecGet == Init /\ [][NextGet]_vars

\* The REST chat routes, one request at a time: the two seeded users write
\* to each other, and every user, the ones registered later included, calls
\* the routes on any conversation and any message.
NextRest ==
    \/ \E role \in {"doctor", "patient"} : AllIdle /\ CreateUser(role)
    \/ \E t \in Tasks, u \in SeededUsers : \E to \in SeededUsers \ {u} :
          AllIdle /\ PostStart(t, u, Body(0, to, "none"))
    \/ \E t \in Tasks : PostPersistConv(t)
    \/ \E t \in Tasks, u \in DOMAIN users, id \in ConvIds : AllIdle /\ GetStart(t, u, id)
    \/ \E t \in Tasks : GetFetch(t)
    \/ \E t \in Tasks : GetMark(t)
    \/ \E t \in Tasks, u \in DOMAIN users, id \in ConvIds :
          AllIdle /\ DeleteConvStart(t, u, id)
    \/ \E t \in Tasks : DeleteConvDo(t)
    \/ \E t \in Tasks, u \in DOMAIN users, id \in MsgIds, content \in Contents :
          AllIdle /\ PatchStart(t, u, id, content)
    \/ \E t \in Tasks : PatchDo(t)
    \/ \E t \in Tasks, u \in DOMAIN users, id \in MsgIds :
          AllIdle /\ DeleteMsgStart(t, u, id)
    \/ \E t \in Tasks : DeleteMsgDo(t)

SpecRest == Init /\ [][NextRest]_vars

\* Everything that creates a conversation, one operation at a time, for
\* users of either role registered after the two seeded ones.
NextConv ==
    \/ \E role \in {"doctor", "patient"} : AllIdle /\ CreateUser(role)
    \/ \E c \in Conns : Connect(c)
    \/ \E c \in Conns, from \in UserIds, to \in UserIds :
          AllIdle /\ ChatDrop(c, from, to)
    \/ \E t \in Tasks, c \in Conns, from \in UserIds, to \in UserIds :
          AllIdle /\ ChatStart(t, c, from, to)
    \/ \E t \in Tasks : ChatPersistConv(t)
    \/ \E t \in Tasks : ChatRegister(t)
    \/ \E t \in Tasks : ChatConv(t)
    \/ \E t \in Tasks : ChatDelivered(t)
    \/ \E t \in Tasks : ChatFanOut(t)
    \/ \E t \in Tasks, u \in DOMAIN users, to \in UserIds :
          AllIdle /\ PostStart(t, u, Body(0, to, "none"))
    \/ \E t \in Tasks : PostPersistConv(t)
    \/ \E t \in Tasks, u \in DOMAIN users, target \in 0..MaxUsers :
          AllIdle /\ ConnectStart(t, u, target)
    \/ \E t \in Tasks : ConnectCreate(t)

SpecConv == Init /\ [][NextConv]_vars

\* The handlers that race on the messages and conversations of the store:
\* socket sends, POST /messages and GET messages, interleaved at their
\* suspension points.
NextRace ==
    \/ \E c \in Conns : Connect(c)
    \/ \E t \in Tasks, c \in Conns, from \in DOMAIN users, to \in DOMAIN users :
          ChatStart(t, c, from, to)
    \/ \E t \in Tasks : ChatPersistConv(t)
    \/ \E t \in Tasks : ChatRegister(t)
    \/ \E t \in Tasks : ChatConv(t)
    \/ \E t \in Tasks : ChatDelivered(t)
    \/ \E t \in Tasks : ChatFanOut(t)
    \/ \E t \in Tasks, u \in DOMAIN users, to \in DOMAIN users : PostStart(t, u, Body(0, to, "none"))
    \/ \E t \in Tasks : PostPersistConv(t)
    \/ \E t \in Tasks, u \in DOMAIN users, id \in ConvIds : GetStart(t, u, id)
    \/ \E t \in Tasks : GetFetch(t)
    \/ \E t \in Tasks : GetMark(t)

SpecRace == Init /\ [][NextRace]_vars

\* POST /connect requests racing with one another.
NextConnect ==
    \/ \E role \in {"doctor", "patient"} : CreateUser(role)
    \/ \E t \in Tasks, u \in DOMAIN users, target \in 0..MaxUsers :
          ConnectStart(t, u, target)
    \/ \E t \in Tasks : ConnectCreate(t)

SpecConnect == Init /\ [][NextConnect]_vars

\* A handler step always runs once its store call has resolved: the steps of
\* a chat_message handler in flight are weakly fair.
ChatFairness ==
    \A t \in Tasks :
        /\ WF_vars(ChatPersistConv(t))
        /\ WF_vars(ChatRegister(t))
        /\ WF_vars(ChatConv(t))
        /\ WF_vars(ChatDelivered(t))
        /\ WF_vars(ChatFanOut(t))

\* Socket sends of the seeded doctor to the seeded patient, one handler at
\* a time, with the sockets registering and closing at any moment.
NextLive ==
    \/ \E c \in Conns : Connect(c)
    \/ \E c \in Conns, u \in SeededUsers : Register(c, u)
    \/ \E c \in Conns : BeginClose(c)
    \/ \E c \in Conns : Close(c)
    \/ \E t \in Tasks, c \in Conns :
          AllIdle /\ currentMessageId <= MaxSends
                  /\ ChatStart(t, c, SeedDoctor, SeedPatient)
    \/ \E t \in Tasks : ChatPersistConv(t)
    \/ \E t \in Tasks : ChatRegister(t)
    \/ \E t \in Tasks : ChatConv(t)
    \/ \E t \in Tasks : ChatDelivered(t)
    \/ \E t \in Tasks : ChatFanOut(t)

SpecLive == Init /\ [][NextLive]_vars /\ ChatFairness

\* Socket sends of the seeded doctor to the seeded patient, one handler at a
\* time, GET messages by either of them after a send, and the sockets
\* registering and closing at any moment.
NextOffline ==
    \/ \E c \in Conns : Connect(c)
    \/ \E c \in Conns, u \in SeededUsers : Register(c, u)
    \/ \E c \in Conns : BeginClose(c)
    \/ \E c \in Conns : Close(c)
    \/ \E t \in Tasks, c \in Conns :
          AllIdle /\ currentMessageId <= MaxSends
                  /\ ChatStart(t, c, SeedDoctor, SeedPatient)
    \/ \E t \in Tasks : ChatPersistConv(t)
    \/ \E t \in Tasks : ChatRegister(t)
    \/ \E t \in Tasks : ChatConv(t)
    \/ \E t \in Tasks : ChatDelivered(t)
    \/ \E t \in Tasks : ChatFanOut(t)
    \/ \E t \in Tasks, u \in SeededUsers, id \in ConvIds : AllIdle /\ GetStart(t, u, id)
    \/ \E t \in Tasks : GetFetch(t)
    \/ \E t \in Tasks : GetMark(t)

SpecOffline == Init /\ [][NextOffline]_vars

\* The two client effects: sockets open and close, timers fire, and the
\* effects are cleaned up at any moment.
NextClient ==
    \/ \E k \in Kinds : Mount(k)
    \/ \E k \in Kinds, i \in 1..MaxSockets : SocketOpen(k, i)
    \/ \E k \in Kinds, i \in 1..MaxSockets : SocketError(k, i)
    \/ \E k \in Kinds, i \in 1..MaxSockets : SocketClosed(k, i)
    \/ \E k \in Kinds, own \in BOOLEAN : TimerFire(k, own)
    \/ \E k \in Kinds : Cleanup(k)

SpecClient == Init /\ [][NextClient]_vars

\* DELETE /conversations/:id by the seeded users while they send each other
\* messages over POST /messages, the handlers interleaving at their store calls.
NextDelete ==
    \/ \E t \in Tasks, u \in SeededUsers : \E to \in SeededUsers \ {u} :
          PostStart(t, u, Body(0, to, "none"))
    \/ \E t \in Tasks : PostPersistConv(t)
    \/ \E t \in Tasks, u \in SeededUsers, id \in ConvIds : DeleteConvStart(t, u, id)
    \/ \E t \in Tasks : DeleteConvDo(t)
    \/ \E t \in Tasks : DeleteConvFail(t)

SpecDelete == Init /\ [][NextDelete]_vars

\* chat_message events whose fromUserId and toUserId are the same user, from
\* any stored user, one handler at a time, with sockets that connect and
\* register and users that are added.
NextSelf ==
    \/ \E role \in {"doctor", "patient"} : AllIdle /\ CreateUser(role)
    \/ \E c \in Conns : Connect(c)
    \/ \E c \in Conns, u \in SeededUsers : AllIdle /\ Register(c, u)
    \/ \E t \in Tasks, c \in Conns, u \in DOMAIN users :
          AllIdle /\ currentMessageId <= MaxSends /\ ChatReceive(t, c, u, u)
    \/ \E t \in Tasks : ChatUsers(t)
    \/ \E t \in Tasks : ChatPersistConv(t)
    \/ \E t \in Tasks : ChatRegister(t)
    \/ \E t \in Tasks : ChatConv(t)
    \/ \E t \in Tasks : ChatDelivered(t)
    \/ \E t \in Tasks : ChatFanOut(t)

SpecSelf == Init /\ [][NextSelf]_vars

\* chat_message events between the two seeded users, one handler at a time,
\* with store calls that may fail.
NextFail ==
    \/ \E c \in Conns : Connect(c)
    \/ \E t \in Tasks, c \in Conns, from \in SeededUsers : \E to \in SeededUsers \ {from} :
          AllIdle /\ ChatReceive(t, c, from, to)
    \/ \E t \in Tasks : ChatUsers(t)
    \/ \E t \in Tasks : ChatPersistConv(t)
    \/ \E t \in Tasks : ChatRegister(t)
    \/ \E t \in Tasks : ChatConv(t)
    \/ \E t \in Tasks : ChatDelivered(t)
    \/ \E t \in Tasks : ChatFanOut(t)
    \/ \E t \in Tasks : ChatFail(t)

SpecFail == Init /\ [][NextFail]_vars

\* The slot of the first handler.
FirstSlot == MinOf(Tasks)

\* The chat_message handlers in flight that have not created their row yet.
Unsaved == {t \in Tasks : tasks[t].kind = "chat" /\ tasks[t].msg = 0}

\* chat_message events of one seeded user to the other on one socket: the
\* first one is received by the idle router and takes the first slot, the
\* others arrive while its handler is in flight, and the handlers interleave
\* at their store calls.  Sockets connect and register meanwhile.
NextOrder ==
    \/ \E c \in Conns : Connect(c)
    \/ \E c \in Conns, u \in SeededUsers : Register(c, u)
    \/ \E c \in Conns, from \in SeededUsers : \E to \in SeededUsers \ {from} :
          AllIdle /\ currentMessageId = 1 /\ ChatReceive(FirstSlot, c, from, to)
    \/ \E t \in Tasks \ {FirstSlot} :
          /\ tasks[FirstSlot].kind = "chat"
          /\ currentMessageId + Cardinality(Unsaved) <= MaxMessages
          /\ ChatReceive(t, tasks[FirstSlot].conn, tasks[FirstSlot].dataFrom,
                         tasks[FirstSlot].dataTo)
    \/ \E t \in Tasks : ChatUsers(t)
    \/ \E t \in Tasks : ChatPersistConv(t)
    \/ \E t \in Tasks : ChatRegister(t)
    \/ \E t \in Tasks : ChatConv(t)
    \/ \E t \in Tasks : ChatDelivered(t)
    \/ \E t \in Tasks : ChatFanOut(t)

SpecOrder == Init /\ [][NextOrder]_vars

\* Histories of sends between the two seeded users, the patient's messages to
\* itself included, of edits and deletions by the sender, and of reads of a
\* conversation by a participant, one request at a time, under a wall clock
\* that moves.
NextHistory ==
    \/ \E t \in Tasks, u \in SeededUsers, to \in SeededUsers, time \in 0..MaxTime :
          /\ AllIdle /\ (u = SeedPatient \/ to # u)
          /\ PostStartAt(t, u, Body(0, to, "none"), time)
    \/ \E t \in Tasks : PostPersistConv(t)
    \/ \E t \in Tasks, id \in DOMAIN conversations :
          \E u \in {conversations[id].doctorId, conversations[id].patientId} :
             AllIdle /\ GetStart(t, u, id)
    \/ \E t \in Tasks : GetFetch(t)
    \/ \E t \in Tasks : GetMark(t)
    \/ \E t \in Tasks, id \in DOMAIN messages :
          AllIdle /\ PatchStart(t, messages[id].fromUserId, id, "edited")
    \/ \E t \in Tasks : PatchDo(t)
    \/ \E t \in Tasks, id \in DOMAIN messages :
          AllIdle /\ DeleteMsgStart(t, messages[id].fromUserId, id)
    \/ \E t \in Tasks : DeleteMsgDo(t)

SpecHistory == Init /\ [][NextHistory]_vars

\* The users whose entry a broadcast over registry cl sends to.
SentTo(cl, rs) == {u \in RegistryKeys(cl) : rs[cl[u]] = "OPEN"}

\* The socket server with sends that throw inside the broadcast: sockets
\* registering under any user id and closing at any moment, the first socket
\* registering again under other ids.
NextSweep ==
    \/ \E c \in Conns : Connect(c)
    \/ \E c \in Conns, u \in UserIds :
          \E thrown \in SUBSET (SentTo(RegistrySet(clients, u, c), readyState)) :
             /\ userId[c] = 0 \/ (c = MinOf(Conns) /\ u # userId[c])
             /\ RegisterThrowing(c, u, thrown)
    \/ \E c \in Conns : BeginClose(c)
    \/ \E c \in Conns : \E thrown \in SUBSET (SentTo(clients, readyState)) :
          CloseThrowing(c, thrown)

SpecSweep == Init /\ [][NextSweep]_vars

\* Chat.handleSendMessage of the seeded patient writing to the seeded doctor:
\* with ws set and wsConnected (c is the server's end of the page's open
\* socket) the chat_message event is sent on the socket and the POST is issued
\* as well; otherwise (c = 0) the POST alone.
handleSendMessage(c) ==
    /\ outbox.sends < MaxSends
    /\ c # 0 => readyState[c] = "OPEN"
    /\ outbox' = [sends |-> outbox.sends + 1,
                  ws |-> IF c # 0 THEN Append(outbox.ws, c) ELSE outbox.ws,
                  rest |-> outbox.rest + 1]
    /\ UNCHANGED <<registryVars, storeVars, tasks, now, effectVars>>
    /\ NoBroadcastSent /\ NoPush /\ NoResponse

\* The oldest chat_message event on its way reaches the server: the message
\* listener of its socket runs.
ChatArrive(t) ==
    /\ outbox.ws # <<>>
    /\ ChatInsert(t, Head(outbox.ws), SeedPatient, SeedDoctor)
    /\ outbox' = [outbox EXCEPT !.ws = Tail(@)]
    /\ UNCHANGED effectVars

\* The oldest chat_message event on its way is lost: its socket is no longer
\* OPEN at the server.
ChatLost ==
    /\ outbox.ws # <<>>
    /\ readyState[Head(outbox.ws)] # "OPEN"
    /\ outbox' = [outbox EXCEPT !.ws = Tail(@)]
    /\ UNCHANGED <<registryVars, storeVars, tasks, now, effectVars>>
    /\ NoBroadcastSent /\ NoPush /\ NoResponse

\* A POST /api/messages of the page reaches the server.
PostArrive(t) ==
    /\ outbox.rest > 0
    /\ PostInsertAt(t, SeedPatient, Body(0, SeedDoctor, "none"), now)
    /\ outbox' = [outbox EXCEPT !.rest = @ - 1]
    /\ UNCHANGED effectVars

\* The send actions of the Chat page of the seeded patient, with its socket
\* open or not, the events and requests they cause reaching the server in any
\* order, one handler at a time, and the sockets closing at any moment.
NextSend ==
    \/ \E c \in Conns : Connect(c)
    \/ \E c \in Conns : BeginClose(c)
    \/ \E c \in Conns : Close(c)
    \/ \E c \in Conns \cup {0} : handleSendMessage(c)
    \/ \E t \in Tasks : AllIdle /\ ChatArrive(t)
    \/ ChatLost
    \/ \E t \in Tasks : ChatPersistConv(t)
    \/ \E t \in Tasks : ChatRegister(t)
    \/ \E t \in Tasks : ChatConv(t)
    \/ \E t \in Tasks : ChatDelivered(t)
    \/ \E t \in Tasks : ChatFanOut(t)
    \/ \E t \in Tasks : AllIdle /\ PostArrive(t)
    \/ \E t \in Tasks : PostPersistConv(t)

SpecSend == Init /\ [][NextSend]_vars

\* ---------------------------------------------------------------- claims
\* C1: after register(u, c1) followed by register(u, c2), with c1 and c2
\* distinct and open, the registry maps u to c2 only, and every later
\* presence broadcast is delivered to c2 and never to c1 as u's entry.
\* Stated on a step: c1 has registered u (its userId is u), u's entry is c2,
\* c2 is open before and after the step and nobody else registers u in it;
\* then u's entry still is c2, and a broadcast of the step goes to c2 as u's
\* entry and not to c1.
C1_LaterRegistrationKeepsEntry ==
    [][\A u \in UserIds, c1 \in Conns, c2 \in Conns :
          ( /\ c1 # c2
            /\ userId[c1] = u
            /\ clients[u] = c2
            /\ readyState[c2] = "OPEN" /\ readyState'[c2] = "OPEN"
            /\ clients'[u] \in {0, c2} )
          => /\ clients'[u] = c2
             /\ lastBroadcast'.sent =>
                   /\ <<u, c2>> \in lastBroadcast'.to
                   /\ <<u, c1>> \notin lastBroadcast'.to]_vars

\* C2: every online_status payload a presence broadcast sends holds exactly
\* the ids of the online-set as it is after that broadcast's stale-entry
\* sweep, and the broadcast is delivered to every connection that remains
\* in the registry.
C2_PayloadIsOnlineSetAfterSweep ==
    lastBroadcast.sent =>
        /\ lastBroadcast.to = {<<u, clients[u]>> : u \in RegistryKeys(clients)}
        /\ lastBroadcast.to # {} => lastBroadcast.payload = onlineUsers

\* The conversation rows that pair users a and b, in either column order.
ConversationsOf(convs, a, b) ==
    {i \in DOMAIN convs : {convs[i].doctorId, convs[i].patientId} = {a, b}}

\* C3: for every doctor D and patient P, after any sequence of completed,
\* non-overlapping socket sends, POST /messages and POST /connect, the store
\* holds at most one conversation row for the pair (D, P), whichever of the
\* two ids is the larger.
C3_OneConversationPerPair ==
    AllIdle =>
        \A d \in DOMAIN users, p \in DOMAIN users :
            (users[d] = "doctor" /\ users[p] = "patient")
                => Cardinality(ConversationsOf(conversations, d, p)) <= 1

\* C4: when first messages between D and P, who have no conversation yet,
\* are processed concurrently, exactly one conversation row for the pair
\* exists once they have completed.
C4_ConcurrentFirstMessagesOneConversation ==
    AllIdle =>
        \A d \in DOMAIN users, p \in DOMAIN users :
            ( /\ users[d] = "doctor" /\ users[p] = "patient"
              /\ getMessagesBetweenUsers(messages, d, p) # {} )
                => Cardinality(ConversationsOf(conversations, d, p)) = 1

\* C5: when two POST /connect requests for the same pair race, a request
\* answered 201 with a created row leaves that row the only one of its pair:
\* the other caller gets the existing conversation or the "already exists"
\* error, never a second created row.
C5_RacingConnectCreatesOneRow ==
    (lastResp.kind = "connect" /\ lastResp.code = 201)
        => Cardinality({i \in DOMAIN conversations :
               /\ conversations[i].doctorId = conversations[lastResp.conv].doctorId
               /\ conversations[i].patientId = conversations[lastResp.conv].patientId})
           = 1

\* The place of a status in the order sent -> delivered -> read.
StatusRank(st) == CASE st = "sent" -> 1 [] st = "delivered" -> 2 [] st = "read" -> 3

\* C6: under any interleaving of the chat_message handler's updates with
\* concurrent GET messages requests, the status of a message only advances
\* along sent -> delivered -> read: no step takes it back.
C6_StatusOnlyAdvances ==
    [][\A m \in DOMAIN messages \cap DOMAIN messages' :
          StatusRank(messages'[m].status) >= StatusRank(messages[m].status)]_vars

\* A step in which GET messages by U sends its 200 response.
GetCompletes == lastResp'.kind = "get" /\ lastResp'.code = 200

\* A step of a GET messages handler in flight (fetch or mark).
GetStep(t) == tasks[t].kind = "get" /\ tasks'[t] # tasks[t]

\* C7: when GET /conversations/:id/messages by a participant U completes,
\* every message of the conversation that was addressed to U with status
\* sent or delivered when it was fetched has status read, and no step of
\* the request changes the status of a message not addressed to U.
C7_GetMarksOwnMessagesRead ==
    [][/\ GetCompletes =>
            \A m \in DOMAIN lastResp'.body :
                ( /\ lastResp'.body[m].toUserId = lastResp'.caller
                  /\ lastResp'.body[m].status \in {"sent", "delivered"}
                  /\ m \in DOMAIN messages' )
                    => messages'[m].status = "read"
       /\ \A t \in Tasks : GetStep(t) =>
            /\ DOMAIN messages' = DOMAIN messages
            /\ \A m \in DOMAIN messages :
                  messages[m].toUserId # tasks[t].caller => messages'[m] = messages[m]]_vars

\* A GET has just completed: it fetched a delivered message addressed to its
\* caller, which is now read, and an unread message addressed to the other
\* participant, which still is as it was fetched.
C7_Witness ==
    /\ lastResp.kind = "get" /\ lastResp.code = 200
    /\ \E m \in DOMAIN lastResp.body :
          /\ lastResp.body[m].toUserId = lastResp.caller
          /\ lastResp.body[m].fromUserId # lastResp.caller
          /\ lastResp.body[m].status = "delivered"
          /\ messages[m].status = "read"
    /\ \E m \in DOMAIN lastResp.body :
          /\ lastResp.body[m].toUserId # lastResp.caller
          /\ lastResp.body[m].status \in {"sent", "delivered"}
          /\ messages[m] = lastResp.body[m]

\* Response r answers a request the caller has no right to: a conversation
\* route on an existing conversation the caller takes no part in, or a
\* message route on an existing message the caller did not send.
Unauthorized(r) ==
    \/ /\ r.kind \in {"delconv", "get"}
       /\ r.id \in DOMAIN conversations
       /\ conversations[r.id].doctorId # r.caller
       /\ conversations[r.id].patientId # r.caller
    \/ /\ r.kind \in {"patch", "delmsg"}
       /\ r.id \in DOMAIN messages
       /\ messages[r.id].fromUserId # r.caller

\* C8: DELETE /conversations/:id and GET /conversations/:id/messages by a
\* caller who is not a participant of the conversation, and PATCH and DELETE
\* /messages/:id by a caller who is not the stored sender of the message, are
\* answered 403 whatever the payload, and leave every conversation and every
\* message (content, status, existence) as it was.
C8_UnauthorizedIs403AndChangesNothing ==
    [][Unauthorized(lastResp') =>
          /\ lastResp'.code = 403
          /\ UNCHANGED <<messages, conversations>>]_vars

\* A user who takes no part in a conversation that holds messages has just
\* been refused its deletion.
C8_Witness ==
    /\ lastResp.kind = "delconv" /\ lastResp.code = 403
    /\ Unauthorized(lastResp)
    /\ getMessagesByConversation(conversations, messages, lastResp.id) # {}

\* A chat_message handler has just persisted message m (status sent), sent
\* by the doctor over its registered socket c to the patient, who is
\* registered on an open socket.
SendStarted(m, c) ==
    \E t \in Tasks :
        /\ tasks[t].kind = "chat" /\ tasks[t].pc = "cm2"
        /\ tasks[t].msg = m /\ tasks[t].conn = c
        /\ tasks[t].dataFrom = SeedDoctor /\ tasks[t].dataTo = SeedPatient
        /\ m \in DOMAIN messages /\ messages[m].status = "sent"
        /\ userId[c] = SeedDoctor /\ clients[SeedDoctor] = c /\ readyState[c] = "OPEN"
        /\ clients[SeedPatient] # 0 /\ readyState[clients[SeedPatient]] = "OPEN"

\* Message m is delivered, and the step that ended its handler has sent it
\* to the patient's registered socket and a confirmation to the originating
\* socket c.
SendDelivered(m, c) ==
    /\ m \in DOMAIN messages /\ messages[m].status = "delivered"
    /\ messages[m].fromUserId = SeedDoctor /\ messages[m].toUserId = SeedPatient
    /\ clients[SeedPatient] # 0
    /\ <<clients[SeedPatient], [msg |-> m, via |-> "recipient", status |-> "none"]>>
          \in lastPush
    /\ <<c, [msg |-> m, via |-> "origin", status |-> "delivered"]>> \in lastPush

\* The originating socket or the patient's registered socket is gone.
SocketGone(c) ==
    \/ readyState[c] # "OPEN"
    \/ clients[SeedPatient] = 0
    \/ readyState[clients[SeedPatient]] # "OPEN"

NoLiveEntry(u) == clients[u] = 0 \/ readyState[clients[u]] # "OPEN"

\* The step that ends chat_message handler t with the fan-out.
FanOutStep(t) == tasks[t].kind = "chat" /\ tasks[t].pc = "h6" /\ tasks'[t] = Idle

\* C10: when the recipient P of a socket chat_message has no live registry
\* entry, the message row is still created and marked delivered and the
\* fan-out sends no chat_message event as a push to P (none to the socket of
\* a stale entry of P either); a later GET /conversations/:id/messages by P
\* on the conversation of the pair returns that message and leaves it read.
C10_OfflineRecipientGetsItOnNextGet ==
    [][/\ \A t \in Tasks :
            (FanOutStep(t) /\ NoLiveEntry(tasks[t].to)) =>
                /\ tasks[t].msg \in DOMAIN messages'
                /\ messages'[tasks[t].msg].status = "delivered"
                /\ messages'[tasks[t].msg].toUserId = tasks[t].to
                /\ \A e \in lastPush' :
                      /\ e[2].via # "recipient"
                      /\ clients[tasks[t].to] # 0 => e[1] # clients[tasks[t].to]
       /\ GetCompletes =>
            \A m \in DOMAIN messages :
                ( /\ messages[m].toUserId = lastResp'.caller
                  /\ lastResp'.id \in DOMAIN conversations
                  /\ {messages[m].fromUserId, messages[m].toUserId}
                        = {conversations[lastResp'.id].doctorId,
                           conversations[lastResp'.id].patientId} )
                    => /\ m \in DOMAIN lastResp'.body
                       /\ messages'[m].status = "read"]_vars

\* The patient, who has never been registered (no socket has closed and the
\* registry holds no entry for it), has just fetched a message that was
\* delivered while it was away; the message is now read.
C10_Witness ==
    /\ \A c \in Conns : readyState[c] \in {"NONE", "OPEN"}
    /\ clients[SeedPatient] = 0
    /\ lastResp.kind = "get" /\ lastResp.code = 200 /\ lastResp.caller = SeedPatient
    /\ \E m \in DOMAIN lastResp.body :
          /\ lastResp.body[m].toUserId = SeedPatient
          /\ lastResp.body[m].status = "delivered"
          /\ messages[m].status = "read"

\* C11: once a client reconnection manager has been cleaned up, its current
\* socket is closing or closed, none of its reconnect timers is pending, and
\* no step creates a socket or sends a register event for it.
C11_CleanedUpManagerStaysClosed ==
    [][\A k \in Kinds :
          effect'[k] = "cleaned" =>
              /\ socket(sockets'[k]) \in {"null", "CLOSING", "ERROR", "CLOSED"}
              /\ timers'[k] = 0
              /\ ~(lastClient'.kind = k /\ (lastClient'.opened \/ lastClient'.register))]_vars

\* C12: of the delays a client computes in consecutive closes with no open in
\* between, the third is strictly greater than the first, and none exceeds
\* the ceiling of the component (15000 ms in Chat, 30000 ms in AuthContext).
C12_BackoffGrowsAndIsCapped ==
    \A k \in Kinds :
        /\ Len(delays[k]) >= 3 => Less(delays[k][1], delays[k][3])
        /\ \A i \in DOMAIN delays[k] : ~Less(ceiling(k), delays[k][i])

\* Both components have gone through enough closes in a row to reach their ceiling.
C12_Witness ==
    \A k \in Kinds : Len(delays[k]) >= 3 /\ delays[k][Len(delays[k])] = ceiling(k)

\* A step in which a POST /messages request in slot t creates its row.
PostCreates(t) == tasks[t].kind # "post" /\ tasks'[t].kind = "post"

\* A step of the POST /messages request in slot t.
PostStep(t) == PostCreates(t) \/ (tasks[t].kind = "post" /\ tasks'[t] # tasks[t])

\* C13: every message POST /messages creates has the session's user id as
\* fromUserId, whatever fromUserId the request body carries: in the row it
\* stores and in the row its 201 response returns.
C13_PostSenderIsSessionUser ==
    [][/\ \A t \in Tasks :
             PostCreates(t) => messages'[tasks'[t].msg].fromUserId = tasks'[t].caller
       /\ lastResp'.kind = "post" =>
             /\ lastResp'.body.fromUserId = lastResp'.caller
             /\ messages'[lastResp'.id].fromUserId = lastResp'.caller]_vars

\* A request whose body names a user other than the session's has created its row.
C13_Witness ==
    \E t \in Tasks :
        /\ tasks[t].kind = "post"
        /\ tasks[t].body.fromUserId \notin {0, tasks[t].caller}
        /\ messages[tasks[t].msg].fromUserId = tasks[t].caller

\* C14: every message POST /messages creates is stored and returned with
\* status sent, whatever the request body carries, and no step of the request
\* pushes an event on a socket.
C14_PostStoresSentAndPushesNothing ==
    [][/\ \A t \in Tasks :
             PostCreates(t) => messages'[tasks'[t].msg].status = "sent"
       /\ lastResp'.kind = "post" => lastResp'.body.status = "sent"
       /\ \A t \in Tasks : PostStep(t) => lastPush' = {}]_vars

\* A step of the DELETE /conversations/:id request in slot t after its access check.
DeleteConvStep(t) == tasks[t].kind = "delconv" /\ tasks'[t] # tasks[t]

\* C15: DELETE /conversations/:id is atomic.  The step that answers 200 leaves
\* neither the row nor a message between its two participants; every step of
\* the request, a failing one and one that runs while a message of the pair is
\* being sent included, either leaves messages and conversations as they are
\* or removes the row together with every message of the pair, and no others.
C15_DeleteConversationIsAtomic ==
    [][\A t \in Tasks :
          DeleteConvStep(t) =>
              LET id == tasks[t].id
              IN  /\ lastResp'.code = 200 =>
                        /\ id \in DOMAIN conversations
                        /\ id \notin DOMAIN conversations'
                        /\ messagesToDelete(messages', conversations[id]) = {}
                  /\ \/ UNCHANGED <<messages, conversations>>
                     \/ /\ id \in DOMAIN conversations
                        /\ conversations' = [i \in DOMAIN conversations \ {id} |->
                                                conversations[i]]
                        /\ messages' =
                              [i \in DOMAIN messages \
                                        {m \in DOMAIN messages :
                                            {messages[m].fromUserId, messages[m].toUserId}
                                            = {conversations[id].doctorId,
                                               conversations[id].patientId}} |->
                                  messages[i]]]_vars

\* A conversation has been deleted with the message of a send still in flight.
C15_Witness ==
    /\ lastResp.kind = "delconv" /\ lastResp.code = 200
    /\ lastResp.id \notin DOMAIN conversations
    /\ \E t \in Tasks : tasks[t].kind = "post" /\ tasks[t].msg \notin DOMAIN messages

\* The close event of socket c is handled in this step.
CloseStep(c) == readyState[c] = "CLOSING" /\ readyState'[c] = "CLOSED"

SelfSendStep(t) ==
    /\ tasks[t].kind = "chat" /\ tasks[t].pc = "recv"
    /\ tasks[t].dataFrom = tasks[t].dataTo
    /\ tasks'[t] # tasks[t]

\* C17: a chat_message a doctor addresses to itself ends the handler with no
\* message persisted and nothing pushed; one a patient addresses to itself is
\* persisted from the patient to a user whose role is doctor, not to the sender.
C17_SelfSendGuard ==
    [][\A t \in Tasks :
          SelfSendStep(t) =>
              LET u == tasks[t].dataFrom
                  m == tasks'[t].msg
              IN  /\ getUser(u) = "doctor" =>
                        /\ tasks'[t] = Idle
                        /\ UNCHANGED <<messages, conversations>>
                        /\ lastPush' = {}
                  /\ getUser(u) = "patient" =>
                        /\ tasks'[t].kind = "chat"
                        /\ DOMAIN messages' = DOMAIN messages \cup {m}
                        /\ m \notin DOMAIN messages
                        /\ messages'[m].fromUserId = u
                        /\ messages'[m].toUserId # u
                        /\ getUser(messages'[m].toUserId) = "doctor"]_vars

\* A patient's message to itself has been persisted with a doctor as recipient.
C17_Witness ==
    \E t \in Tasks :
        /\ tasks[t].kind = "chat" /\ tasks[t].dataFrom = tasks[t].dataTo
        /\ tasks[t].msg \in DOMAIN messages
        /\ messages[tasks[t].msg].fromUserId = tasks[t].dataFrom
        /\ getUser(messages[tasks[t].msg].toUserId) = "doctor"

\* The chat_message handler of slot t ends in this step before its fan-out.
ChatAborts(t) == tasks[t].kind = "chat" /\ tasks[t].pc # "h6" /\ tasks'[t] = Idle

\* C18: a persistence failure aborts the chat_message handler with no partial
\* state.  The step that ends the handler pushes nothing, and once no handler
\* is in flight every message row has a conversation of its pair and every
\* conversation row has a message of its pair.
C18_FailureLeavesNoPartialState ==
    [][/\ \A t \in Tasks : ChatAborts(t) => lastPush' = {}
       /\ (\A t \in Tasks : tasks'[t] = Idle) =>
             /\ \A m \in DOMAIN messages' :
                   ConversationsOf(conversations', messages'[m].fromUserId,
                                   messages'[m].toUserId) # {}
             /\ \A i \in DOMAIN conversations' :
                   messagesToDelete(messages', conversations'[i]) # {}]_vars

\* The handler of slot t creates its message row in this step.
ChatSaves(t) ==
    /\ tasks[t].kind = "chat" /\ tasks[t].msg = 0
    /\ tasks'[t].kind = "chat" /\ tasks'[t].msg # 0

\* The handler of slot t pushes its message to the recipient in this step.
ChatPushes(t) ==
    /\ tasks[t].kind = "chat" /\ tasks[t].pc = "h6"
    /\ \E e \in lastPush' : e[2].msg = tasks[t].msg /\ e[2].via = "recipient"

\* C19: of two chat_message events for one pair received on one connection,
\* the message of the first is appended to the store before the message of
\* the second and is pushed to the recipient before it, however the two
\* handlers interleave: a handler that started after the first one creates its
\* row only once the first has created its own, and pushes to the recipient
\* only once the first has done its fan-out.
C19_ReceiveOrderIsKept ==
    [][\A t \in Tasks \ {FirstSlot} :
          /\ ChatSaves(t) => tasks[FirstSlot] = Idle \/ tasks[FirstSlot].msg # 0
          /\ ChatPushes(t) => tasks[FirstSlot] = Idle]_vars

\* C20: the list GET /conversations/:id/messages returns to a participant
\* holds exactly the stored messages between the two users of the
\* conversation, each once, with their stored content and send time, and is
\* non-decreasing in send time, after any history of sends, edits and deletions.
C20_GetReturnsThePairSortedBySentAt ==
    [][GetCompletes =>
          LET order == lastResp'.order
              body == lastResp'.body
              conv == conversations'[lastResp'.id]
              stored == {m \in DOMAIN messages' :
                            {messages'[m].fromUserId, messages'[m].toUserId}
                            = {conv.doctorId, conv.patientId}}
          IN  /\ {order[i] : i \in DOMAIN order} = stored
              /\ Len(order) = Cardinality(stored)
              /\ DOMAIN body = stored
              /\ \A m \in stored : /\ body[m].content = messages'[m].content
                                    /\ body[m].sentAt = messages'[m].sentAt
                                    /\ body[m].fromUserId = messages'[m].fromUserId
                                    /\ body[m].toUserId = messages'[m].toUserId
              /\ \A i, j \in DOMAIN order :
                    i < j => body[order[i]].sentAt <= body[order[j]].sentAt]_vars

\* A GET has returned two messages of the pair, the one created later first
\* and as edited since.
C20_Witness ==
    /\ lastResp.kind = "get" /\ lastResp.code = 200
    /\ Len(lastResp.order) >= 2
    /\ lastResp.order[1] > lastResp.order[2]
    /\ lastResp.body[lastResp.order[1]].content = "edited"

\* C21: when a broadcast has completed, every entry left in the registry maps
\* to an OPEN socket, and every user id the sweep or a throwing send evicted
\* is absent from the registry and from the online-set.
C21_BroadcastLeavesOpenEntries ==
    lastBroadcast.sent =>
        /\ \A u \in RegistryKeys(clients) : readyState[clients[u]] = "OPEN"
        /\ \A u \in lastBroadcast.evicted : clients[u] = 0 /\ u \notin onlineUsers

\* A broadcast has evicted one user in its sweep and another whose send
\* threw, and has left an entry in the registry.
C21_Witness ==
    /\ lastBroadcast.sent
    /\ RegistryKeys(clients) # {}
    /\ lastBroadcast.failed # {}
    /\ lastBroadcast.evicted \ lastBroadcast.failed # {}

\* The sockets of k that are connecting or open.
Live(k) == {i \in DOMAIN sockets[k] : sockets[k][i] \in {"CONNECTING", "OPEN"}}

\* A step in which connectWebSocket() of k runs.
Connects(k) == (effect[k] = "none" /\ effect'[k] = "active") \/ timers'[k] < timers[k]

\* C22: a client reconnection manager never has more than one socket
\* connecting or open, and a connectWebSocket() that runs while its socket is
\* open creates no socket, under any sequence of open, error, close and
\* reconnect-timer events.
C22_OneLiveSocket ==
    [][\A k \in Kinds :
          /\ Cardinality(Live(k)') <= 1
          /\ (Connects(k) /\ socket(sockets[k]) = "OPEN") => sockets'[k] = sockets[k]]_vars

\* The reconnect timer of a manager has just created a socket, after an
\* earlier socket of that manager failed and closed: that one is the only
\* socket connecting or open.
C22_Witness ==
    /\ lastClient.kind \in Kinds /\ lastClient.opened
    /\ reconnectAttempts[lastClient.kind] > 0
    /\ Cardinality(Live(lastClient.kind)) = 1
    /\ \E i \in DOMAIN sockets["auth"] : sockets["auth"][i] = "OPEN"

\* C23: the registry is one-to-one: no socket is the registry value of two
\* different user ids, also after one socket has sent register events
\* carrying different userIds.
C23_RegistryIsOneToOne ==
    \A u, v \in RegistryKeys(clients) : clients[u] = clients[v] => u = v

\* C24: every conversation row pairs one doctor and one patient: its doctorId
\* is a user stored as doctor and its patientId a different user stored as
\* patient, whatever the roles of the sender and the recipient of the message
\* that created it.
C24_ConversationPairsDoctorAndPatient ==
    \A i \in DOMAIN conversations :
        /\ getUser(conversations[i].doctorId) = "doctor"
        /\ getUser(conversations[i].patientId) = "patient"
        /\ conversations[i].doctorId # conversations[i].patientId

\* C25: when the socket c1 that registered user u closes after u registered
\* another socket c2, which is still OPEN, u stays mapped to c2 in the
\* registry and stays in the online-set.
C25_CloseOfOlderSocketKeepsUser ==
    [][\A c1, c2 \in Conns :
          (/\ CloseStep(c1)
           /\ c2 # c1
           /\ userId[c1] # 0
           /\ userId[c2] = userId[c1]
           /\ clients[userId[c1]] = c2
           /\ readyState[c2] = "OPEN")
          => /\ clients'[userId[c1]] = c2
             /\ userId[c1] \in onlineUsers']_vars

\* C26: after the close listeners of socket c have run, no registry entry
\* maps to c, and no user whose entry mapped to c (registered through c, by no
\* other socket since) is in the online-set, whatever register events c sent.
C26_CloseRemovesEveryEntryOfSocket ==
    [][\A c \in Conns :
          CloseStep(c) =>
              \A u \in UserIds :
                  /\ clients'[u] # c
                  /\ clients[u] = c => u \notin onlineUsers']_vars

\* C27: at the end of every handler of the socket server (register,
\* chat_message, close, each with its broadcast sweep) the online-set is
\* exactly the set of the keys of the registry.
C27_OnlineSetIsRegistryKeys == onlineUsers = RegistryKeys(clients)

\* A handler has ended with a broadcast whose sweep evicted a user while
\* another user stays registered and online.
C27_Witness ==
    /\ lastBroadcast.sent
    /\ lastBroadcast.evicted # {}
    /\ onlineUsers # {}

\* The step of chat_message handler t that follows the insertion of its
\* message: the implicit registration, when the socket has no userId.
AfterPersistStep(t) == tasks[t].kind = "chat" /\ tasks[t].pc = "h3" /\ tasks'[t].pc = "h4"

\* The socket of handler t is registered under the event's fromUserId, that
\* id is online, presence has been broadcast, and the fan-out is still ahead.
ImplicitlyRegistered(t) ==
    /\ userId'[tasks[t].conn] = tasks[t].dataFrom
    /\ clients'[tasks[t].dataFrom] = tasks[t].conn
    /\ tasks[t].dataFrom \in onlineUsers'
    /\ lastBroadcast'.sent
    /\ lastPush' = {}

\* The fan-out of a handler registers nothing and broadcasts nothing.
FanOutRegistersNothing ==
    \A t \in Tasks :
        FanOutStep(t) => UNCHANGED <<userId, clients, onlineUsers>> /\ ~lastBroadcast'.sent

\* C28 as stated: when the message of a chat_message sent on a socket with no
\* registered user id has been persisted, the server registers the socket
\* under the event's fromUserId (replacing an entry of that id), adds the id
\* to the online-set and broadcasts presence, before the fan-out.
C28_UnregisteredSenderIsRegistered ==
    [][/\ \A t \in Tasks :
             (AfterPersistStep(t) /\ userId[tasks[t].conn] = 0) => ImplicitlyRegistered(t)
       /\ FanOutRegistersNothing]_vars

\* C28, amended: the same for a socket that is still OPEN when its message
\* has been persisted.
C28_OpenUnregisteredSenderIsRegistered ==
    [][/\ \A t \in Tasks :
             (/\ AfterPersistStep(t)
              /\ userId[tasks[t].conn] = 0
              /\ readyState[tasks[t].conn] = "OPEN") => ImplicitlyRegistered(t)
       /\ FanOutRegistersNothing]_vars

\* An implicit registration has just replaced the entry of another socket,
\* still OPEN, that had registered the sender.
C28_Witness ==
    \E t \in Tasks :
        /\ tasks[t].kind = "chat" /\ tasks[t].pc = "h4"
        /\ lastBroadcast.sent
        /\ clients[tasks[t].dataFrom] = tasks[t].conn
        /\ readyState[tasks[t].conn] = "OPEN"
        /\ \E c \in Conns \ {tasks[t].conn} :
              userId[c] = tasks[t].dataFrom /\ readyState[c] = "OPEN"

\* A chat_message handler in slot t inserts its message row in this step.
ChatCreatesRow(t) ==
    /\ tasks'[t].kind = "chat" /\ tasks'[t].msg # 0
    /\ tasks[t].kind # "chat" \/ tasks[t].msg = 0

\* C29: every message the socket path persists has as fromUserId the user id
\* its originating socket is registered under: a socket registered as u
\* creates no message whose sender is another user.
C29_SocketSenderIsRegisteredUser ==
    [][\A t \in Tasks :
          (ChatCreatesRow(t) /\ userId[tasks'[t].conn] # 0) =>
              messages'[tasks'[t].msg].fromUserId = userId[tasks'[t].conn]]_vars

\* C30: one send action of the Chat page results in exactly one persisted
\* message row, with its socket connected (socket send and REST backup) or
\* not (REST only): once everything the page sent has reached the server and
\* every handler has ended, the store holds one row for each send action.
C30_OneRowPerSend ==
    (outbox.ws = <<>> /\ outbox.rest = 0 /\ AllIdle)
        => Cardinality(DOMAIN messages) = outbox.sends
====
